---- MODULE Spec2Model ----
(***************************************************************************)
(* A model of atools/_cli.py: the structural coercion engine               *)
(* (_Decorator._set_t), the parser-tree builder (_Decorator.__call__,      *)
(* _set_entrypoint, _set_parameter) and the dispatcher (_Decoration.run).  *)
(*                                                                         *)
(* Python values are records [k |-> runtime type, p |-> payload]; type     *)
(* annotations are records [o |-> typing.get_origin(t) or t,               *)
(* a |-> typing.get_args(t)].  Python strings (parameter names, command    *)
(* line tokens) are sequences of one-character strings, so that            *)
(* str.replace, prefix matching and literal parsing are computed.          *)
(***************************************************************************)
EXTENDS Integers, Sequences, FiniteSets, TLC

(***************************************************************************)
(* Bounds of the model.                                                    *)
(***************************************************************************)
\* Nesting depth of the annotations the coercion harness builds.
MaxDepth == 4
\* Length of the exhaustively enumerated command lines.
MaxArgv == 1

(***************************************************************************)
(* Python values and annotations.                                          *)
(***************************************************************************)
Val(k, p) == [k |-> k, p |-> p]
Raise(e) == Val("raise", e)
IsRaise(v) == v.k = "raise"
NoneV == Val("NoneType", 0)
IntV(n) == Val("int", n)
BoolV(b) == Val("bool", b)
\* A float m * 10^-e.
FloatV(m, e) == Val("float", <<m, e>>)
StrV(s) == Val("str", s)

Ty(o, a) == [o |-> o, a |-> a]
Prim(o) == Ty(o, <<>>)
EllipsisT == Prim("Ellipsis")
ListT(A) == Ty("list", <<A>>)
SetOfT(A) == Ty("set", <<A>>)
FrozenSetT(A) == Ty("frozenset", <<A>>)
DictT(K, V) == Ty("dict", <<K, V>>)
TupleT(As) == Ty("tuple", As)
VarTupleT(A) == Ty("tuple", <<A, EllipsisT>>)

_container_types == {"dict", "frozenset", "list", "set", "tuple"}
_primitive_types == {"bool", "float", "int", "str"}
_types == _container_types \cup _primitive_types

\* The first exception raised while evaluating rs left to right, if any.
FirstRaise(rs) ==
    IF \E i \in DOMAIN rs : IsRaise(rs[i])
    THEN rs[CHOOSE i \in DOMAIN rs : IsRaise(rs[i]) /\ \A j \in 1..(i - 1) : ~IsRaise(rs[j])]
    ELSE NoneV

\* The elements of a sequence, from the second on: value[1:].
Rest(s) == [i \in 1..(Len(s) - 1) |-> s[i + 1]]

\* T(value): a user type is constructed from the raw value; typing.Union, None
\* and inspect.Parameter.empty (no annotation) are not constructors of one argument.
CustomCase(value, t) ==
    IF t.o \in {"Union", "NoneType", "empty", "Ellipsis"}
    THEN Raise("TypeError")
    ELSE Val("custom", <<t.o, value>>)

RECURSIVE _set_t(_, _)
\* tuple([cls._set_t(value[0], A0), *cls._set_t(value[1:], tuple[*As])])
FixedTupleCase(value, t) ==
    IF Len(value.p) = 0
    THEN Raise("IndexError")
    ELSE LET head == _set_t(value.p[1], t.a[1])
         IN  IF IsRaise(head)
             THEN head
             ELSE LET tail == _set_t(Val("tuple", Rest(value.p)), TupleT(Rest(t.a)))
                  IN  IF IsRaise(tail) THEN tail ELSE Val("tuple", <<head>> \o tail.p)

\* EachOf, were the comprehension to skip the last element.
EachOf_DropLast(kind, elems, A) ==
    LET rs == [i \in 1..(Len(elems) - 1) |-> _set_t(elems[i], A)]
    IN  IF IsRaise(FirstRaise(rs)) THEN FirstRaise(rs) ELSE Val(kind, rs)

\* [cls._set_t(value, A) for value in value], for a list or a tuple payload.
EachOf(kind, elems, A) ==
    LET rs == [i \in DOMAIN elems |-> _set_t(elems[i], A)]
    IN  IF IsRaise(FirstRaise(rs)) THEN FirstRaise(rs) ELSE Val(kind, rs)

\* {cls._set_t(value, A) for value in value}, into a set or a frozenset.
\* The iteration order of a set decides which of several exceptions is raised.
EachIn(kind, elems, A) ==
    LET rs == {_set_t(e, A) : e \in elems}
    IN  IF \E r \in rs : IsRaise(r)
        THEN CHOOSE r \in rs : IsRaise(r)
        ELSE Val(kind, rs)

\* {cls._set_t(key, A0): cls._set_t(sub_value, A1) for key, sub_value in value.items()}
\* A dict payload is the sequence of its <<key, value>> items, in insertion order.
DictCase(items, A0, A1) ==
    LET ks == [i \in DOMAIN items |-> _set_t(items[i][1], A0)]
        vs == [i \in DOMAIN items |-> _set_t(items[i][2], A1)]
        rs == [i \in 1..(2 * Len(items)) |->
                  IF i % 2 = 1 THEN ks[(i + 1) \div 2] ELSE vs[i \div 2]]
    IN  IF IsRaise(FirstRaise(rs))
        THEN FirstRaise(rs)
        ELSE Val("dict", [i \in DOMAIN items |-> <<ks[i], vs[i]>>])

\* match type(value), typing.get_origin(t) or t, typing.get_args(t)
_set_t(value, t) ==
    CASE value.k = "bool" /\ t.o = "bool" /\ t.a = <<>> -> value
      [] value.k = "float" /\ t.o = "float" /\ t.a = <<>> -> value
      [] value.k = "int" /\ t.o = "int" /\ t.a = <<>> -> value
      [] value.k = "str" /\ t.o = "str" /\ t.a = <<>> -> value
      [] value.k = "NoneType" /\ t.o = "NoneType" /\ t.a = <<>> -> value
      [] t.o = "Union" /\ (\E i \in DOMAIN t.a : t.a[i] = Prim(value.k)) -> value
      [] value.k = "dict" /\ t.o = "dict" /\ Len(t.a) = 2 ->
            DictCase(value.p, t.a[1], t.a[2])
      [] value.k = "set" /\ t.o = "frozenset" /\ Len(t.a) = 1 ->
            EachIn("frozenset", value.p, t.a[1])
      [] value.k = "list" /\ t.o = "list" /\ Len(t.a) = 1 ->
            EachOf("list", value.p, t.a[1])
      [] value.k = "set" /\ t.o = "set" /\ Len(t.a) = 1 ->
            EachIn("set", value.p, t.a[1])
      [] value.k = "tuple" /\ t.o = "tuple" /\ Len(t.a) = 2 /\ t.a[2] = EllipsisT ->
            EachOf("tuple", value.p, t.a[1])
      [] value.k = "tuple" /\ t.o = "tuple" /\ Len(t.a) >= 1
            /\ ~(Len(t.a) = 2 /\ t.a[2] = EllipsisT) ->
            FixedTupleCase(value, t)
      [] value.k = "tuple" /\ t.o = "tuple" /\ t.a = <<>> -> Val("tuple", <<>>)
      [] ~(t.o = "Union" /\ (\E i \in DOMAIN t.a : t.a[i] = Prim(value.k)))
            /\ value.k \in _types /\ t.o \notin _types ->
            CustomCase(value, t)
      [] OTHER -> Raise("RuntimeError")

(***************************************************************************)
(* Python strings used as names and tokens.                                *)
(***************************************************************************)
N_a == <<"a">>
N_b == <<"b">>
N_c == <<"c">>
N_d == <<"d">>
N_e == <<"e">>
N_n == <<"n">>
N_pos == <<"p", "o", "s">>
N_pos_or_kwd == <<"p", "o", "s", "_", "o", "r", "_", "k", "w", "d">>
N_args == <<"a", "r", "g", "s">>
N_kwargs == <<"k", "w", "a", "r", "g", "s">>
N_file == <<"f", "i", "l", "e">>
N_entrypoint == <<"e", "n", "t", "r", "y", "p", "o", "i", "n", "t">>
N_prog == <<"p", "r", "o", "g">>
N_foo == <<"f", "o", "o">>
N_bar == <<"_", "b", "a", "r">>
N_baz == <<"b", "a", "z">>
N_qux == <<"q", "u", "x">>
N_dot == <<".">>
Chars_hi == <<"h", "i">>

StartsWith(s, prefix) ==
    Len(prefix) <= Len(s) /\ SubSeq(s, 1, Len(prefix)) = prefix

\* str.replace(old, new) for one-character old and new.
Replace(s, old, new) == [i \in DOMAIN s |-> IF s[i] = old THEN new ELSE s[i]]

(***************************************************************************)
(* Entrypoint functions and the module hierarchy they live in.             *)
(***************************************************************************)
\* inspect.Parameter.empty, as a default and as an annotation.
Empty == Val("empty", 0)
EmptyT == Prim("empty")
AnnotatedT(A, meta) == Ty("Annotated", <<A, Prim(meta)>>)

Parameter(name, kind, default, annotation) ==
    [name |-> name, kind |-> kind, default |-> default, annotation |-> annotation]

\* A function definition: its signature and whether it is `async def`.
Def(sig, coro) == [defined |-> TRUE, sig |-> sig, coro |-> coro]
\* getattr(module, name, None) finds nothing.
NoDef == [defined |-> FALSE, sig |-> <<>>, coro |-> FALSE]

\* entrypoint(a: int, /, b: str, c: bool = True, *, d: float)
SigDoc ==
    << Parameter(N_a, "POSITIONAL_ONLY", Empty, Prim("int")),
       Parameter(N_b, "POSITIONAL_OR_KEYWORD", Empty, Prim("str")),
       Parameter(N_c, "POSITIONAL_OR_KEYWORD", BoolV(TRUE), Prim("bool")),
       Parameter(N_d, "KEYWORD_ONLY", Empty, Prim("float")) >>
\* f(a, /, b, c=1, *, d, e=2.0)
SigKinds ==
    << Parameter(N_a, "POSITIONAL_ONLY", Empty, EmptyT),
       Parameter(N_b, "POSITIONAL_OR_KEYWORD", Empty, EmptyT),
       Parameter(N_c, "POSITIONAL_OR_KEYWORD", IntV(1), EmptyT),
       Parameter(N_d, "KEYWORD_ONLY", Empty, EmptyT),
       Parameter(N_e, "KEYWORD_ONLY", FloatV(2, 0), EmptyT) >>
\* entrypoint()
SigNone == <<>>
\* entrypoint(pos: int, /)
SigPos == << Parameter(N_pos, "POSITIONAL_ONLY", Empty, Prim("int")) >>
\* entrypoint(pos: int = 42, /)
SigPosDefault == << Parameter(N_pos, "POSITIONAL_ONLY", IntV(42), Prim("int")) >>
\* entrypoint(pos_or_kwd: str)
SigPosOrKwd == << Parameter(N_pos_or_kwd, "POSITIONAL_OR_KEYWORD", Empty, Prim("str")) >>
\* entrypoint(pos_or_kwd: str = 'hi')
SigPosOrKwdDefault ==
    << Parameter(N_pos_or_kwd, "POSITIONAL_OR_KEYWORD", StrV(Chars_hi), Prim("str")) >>
\* entrypoint(a: int, /, *args: list)
SigVarArgs ==
    << Parameter(N_a, "POSITIONAL_ONLY", Empty, Prim("int")),
       Parameter(N_args, "VAR_POSITIONAL", Empty, Prim("list")) >>
\* entrypoint(**kwargs: dict)
SigKwargs == << Parameter(N_kwargs, "VAR_KEYWORD", Empty, Prim("dict")) >>
\* entrypoint(*, n: typing.Annotated[int, 'count'] = 7, e: tuple[int, int] = (1, 2))
SigAnnotated ==
    << Parameter(N_n, "KEYWORD_ONLY", IntV(7), AnnotatedT(Prim("int"), "count")),
       Parameter(N_e, "KEYWORD_ONLY", Val("tuple", <<IntV(1), IntV(2)>>),
                 TupleT(<<Prim("int"), Prim("int")>>)) >>

\* entrypoint(e: list[tuple[int, str]])
SigNested ==
    << Parameter(N_e, "POSITIONAL_OR_KEYWORD", Empty,
                 ListT(TupleT(<<Prim("int"), Prim("str")>>))) >>

Module(name, package, subs, def) ==
    [name |-> name, package |-> package, subs |-> subs, def |-> def]

\* A module that is not a package, holding the decorated function.
SingleWorlds ==
    { <<Module(N_prog, FALSE, <<>>, f)>> :
        f \in { Def(SigDoc, FALSE), Def(SigKinds, FALSE), Def(SigNone, FALSE),
                Def(SigPos, TRUE), Def(SigPosDefault, FALSE),
                Def(SigPosOrKwd, FALSE), Def(SigPosOrKwdDefault, FALSE),
                Def(SigVarArgs, FALSE), Def(SigKwargs, FALSE),
                Def(SigAnnotated, FALSE), Def(SigNested, FALSE) } }

\* A package with no submodule.
LoneWorlds == { <<Module(N_prog, TRUE, <<>>, Def(SigNone, FALSE))>> }

\* prog/{__init__, _bar, baz/{__init__, qux}, foo}: pkgutil.iter_modules lists the
\* submodules of a package sorted by name.
PackageWorlds ==
    { << Module(N_prog, TRUE, <<2, 3, 5>>, f1),
         Module(N_bar, FALSE, <<>>, f2),
         Module(N_baz, TRUE, <<4>>, f3),
         Module(N_qux, FALSE, <<>>, f4),
         Module(N_foo, FALSE, <<>>, f5) >> :
        f1 \in {Def(SigNone, FALSE), Def(SigDoc, FALSE)},
        f2 \in {NoDef, Def(SigPosDefault, FALSE)},
        f3 \in {NoDef, Def(SigPosOrKwd, FALSE), Def(SigKwargs, FALSE)},
        f4 \in {NoDef, Def(SigPosOrKwdDefault, FALSE)},
        f5 \in {Def(SigPos, FALSE), Def(SigPos, TRUE), Def(SigVarArgs, FALSE)} }

Worlds == SingleWorlds \cup LoneWorlds \cup PackageWorlds

(***************************************************************************)
(* State.                                                                  *)
(***************************************************************************)
VARIABLES
    modules,     \* the importable modules; modules[1] holds the decorated function
    submodules,  \* _Decorator.submodules
    pc,          \* "undecorated", "building", "decorated" or "failed"
    parsers,     \* every argparse.ArgumentParser created, by creation order
    stack,       \* the worklist of __call__
    cli,         \* the `cli` attribute of the decorated function
    pushed,      \* the parsers pushed on the worklist, in order
    popped,      \* the parsers popped from the worklist, in order
    raised,      \* the exception __call__ ended with, if any
    argv,        \* the command line given to run
    parsed,      \* what parse_args made of it
    calls,       \* the invocations of an entrypoint function during run
    printed,     \* the parsers whose help run printed
    returned     \* what run returned or raised

VARIABLES value, sibling, t, result

cliVars ==
    <<modules, submodules, pc, parsers, stack, cli, pushed, popped, raised,
      argv, parsed, calls, printed, returned>>
coerceVars == <<value, sibling, t, result>>
vars == <<cliVars, coerceVars>>

NoCli == [attached |-> FALSE, parser |-> 0]
None == NoneV
Function(m) == Val("function", m)
PrintHelp(p) == Val("print_help", p)

(***************************************************************************)
(* The parser tree builder.                                                *)
(***************************************************************************)
\* argparse.ArgumentParser(...), with no argument, default or subcommand yet.
ArgumentParser(name) ==
    [ name |-> name,
      entrypoint |-> Val("unset", 0),
      actions |-> <<>>,
      has_subparsers |-> FALSE,
      subparsers |-> <<>> ]

\* parser.add_argument(name): a positional when name has no leading '-', else a
\* flag whose dest is the option string without its dashes, '-' turned to '_'.
add_argument(name) ==
    IF StartsWith(name, <<"-", "-">>)
    THEN [ dest |-> Replace(SubSeq(name, 3, Len(name)), "-", "_"),
           option_strings |-> <<name>>,
           required |-> FALSE,
           nargs |-> "None",
           default |-> None,
           const |-> None,
           type |-> Prim("None"),
           help |-> <<>> ]
    ELSE [ dest |-> name,
           option_strings |-> <<>>,
           required |-> TRUE,
           nargs |-> "None",
           default |-> None,
           const |-> None,
           type |-> Prim("None"),
           help |-> <<>> ]

\* An argument builder that never marks a flag required.
FlagFor_NeverRequired(parameter) ==
    LET positional ==
            \/ parameter.kind = "POSITIONAL_ONLY"
            \/ parameter.kind = "POSITIONAL_OR_KEYWORD" /\ parameter.default = Empty
        flag == IF positional
                THEN add_argument(parameter.name)
                ELSE add_argument(<<"-", "-">> \o Replace(parameter.name, "_", "-"))
    IN  IF parameter.default = Empty
        THEN [flag EXCEPT !.type = parameter.annotation]
        ELSE [flag EXCEPT !.default = parameter.default,
                          !.nargs = "?",
                          !.type = parameter.annotation]

\* An argument builder that leaves a positional with a default mandatory.
FlagFor_PositionalMandatory(parameter) ==
    LET positional ==
            \/ parameter.kind = "POSITIONAL_ONLY"
            \/ parameter.kind = "POSITIONAL_OR_KEYWORD" /\ parameter.default = Empty
        flag == IF positional
                THEN add_argument(parameter.name)
                ELSE add_argument(<<"-", "-">> \o Replace(parameter.name, "_", "-"))
    IN  IF parameter.default = Empty
        THEN [flag EXCEPT !.required = TRUE, !.type = parameter.annotation]
        ELSE [flag EXCEPT !.default = parameter.default,
                          !.nargs = IF positional THEN "None" ELSE "?",
                          !.type = parameter.annotation]

\* The argument _set_parameter adds for a parameter of a supported kind.
FlagFor(parameter) ==
    LET positional ==
            \/ parameter.kind = "POSITIONAL_ONLY"
            \/ parameter.kind = "POSITIONAL_OR_KEYWORD" /\ parameter.default = Empty
        flag == IF positional
                THEN add_argument(parameter.name)
                ELSE add_argument(<<"-", "-">> \o Replace(parameter.name, "_", "-"))
        annotated == parameter.annotation.o = "Annotated"
        ty == IF annotated THEN parameter.annotation.a[1] ELSE parameter.annotation
        meta == IF annotated THEN <<Val("meta", parameter.annotation.a[2].o)>> ELSE <<>>
    IN  IF parameter.default = Empty
        THEN [flag EXCEPT !.required = TRUE, !.type = ty, !.help = meta]
        ELSE [flag EXCEPT !.default = parameter.default,
                          !.nargs = "?",
                          !.type = ty,
                          !.help = Append(meta, Val("Default", parameter.default))]

SupportedKinds == {"POSITIONAL_ONLY", "POSITIONAL_OR_KEYWORD", "KEYWORD_ONLY"}

\* _set_parameter: the parser with the argument added, or RuntimeError.
_set_parameter(parser, parameter) ==
    IF parameter.kind \in SupportedKinds
    THEN [ok |-> TRUE,
          parser |-> [parser EXCEPT !.actions = Append(@, FlagFor(parameter))]]
    ELSE [ok |-> FALSE, parser |-> parser]

RECURSIVE SetParameters(_, _, _)
\* for parameter in inspect.signature(entrypoint).parameters.values(), from the i-th.
SetParameters(parser, sig, i) ==
    IF i > Len(sig)
    THEN [ok |-> TRUE, parser |-> parser]
    ELSE LET r == _set_parameter(parser, sig[i])
         IN  IF r.ok THEN SetParameters(r.parser, sig, i + 1) ELSE r

\* inspect.signature of an entrypoint; print_help is ArgumentParser.print_help(file=None).
Signature(entrypoint) ==
    IF entrypoint.k = "function"
    THEN modules[entrypoint.p].def.sig
    ELSE << Parameter(N_file, "POSITIONAL_OR_KEYWORD", None, EmptyT) >>

\* A binding that installs no parameter.
_set_entrypoint_NoParameters(parser, entrypoint) ==
    [ok |-> \A i \in DOMAIN Signature(entrypoint) :
                Signature(entrypoint)[i].kind \in SupportedKinds,
     parser |-> [parser EXCEPT !.entrypoint = entrypoint]]

_set_entrypoint(parser, entrypoint) ==
    SetParameters([parser EXCEPT !.entrypoint = entrypoint], Signature(entrypoint), 1)

Init ==
    /\ modules \in Worlds
    /\ submodules \in BOOLEAN
    /\ pc = "undecorated"
    /\ parsers = <<>>
    /\ stack = <<>>
    /\ cli = NoCli
    /\ pushed = <<>>
    /\ popped = <<>>
    /\ raised = None
    /\ argv = <<>>
    /\ parsed = None
    /\ calls = <<>>
    /\ printed = <<>>
    /\ returned = None
    /\ value = None
    /\ sibling = None
    /\ t = Prim("None")
    /\ result = None

\* __call__, up to its loop: the root parser falls back on printing its help and
\* is attached to the function as `.cli` before anything is built.
__call__ ==
    /\ pc = "undecorated"
    /\ parsers' = << [ArgumentParser(<<>>) EXCEPT !.entrypoint = PrintHelp(1)] >>
    /\ cli' = [attached |-> TRUE, parser |-> 1]
    /\ stack' = << [parser |-> 1, module |-> 1, entrypoint |-> Function(1)] >>
    /\ pushed' = <<1>>
    /\ pc' = "building"
    /\ UNCHANGED <<modules, submodules, popped, raised, argv, parsed, calls,
                   printed, returned, coerceVars>>

\* One iteration of `while stack`.
__call__loop ==
    /\ pc = "building"
    /\ stack # <<>>
    /\ LET top == stack[Len(stack)]
           m == modules[top.module]
           package == submodules /\ m.package
           subs == IF package THEN m.subs ELSE <<>>
           base == Len(parsers)
           hasEntrypoint == top.entrypoint # None
           dotted == package /\ hasEntrypoint
           dot == base + Len(subs) + 1
           target == IF dotted THEN dot ELSE top.parser
           subEntries ==
               [i \in DOMAIN subs |->
                   [ name |-> modules[subs[i]].name,
                     parser |-> base + i,
                     listed |-> ~StartsWith(modules[subs[i]].name, <<"_">>) ]]
           subParsers ==
               [i \in DOMAIN subs |->
                   [ArgumentParser(modules[subs[i]].name)
                       EXCEPT !.entrypoint = PrintHelp(base + i)]]
           pushes ==
               [i \in DOMAIN subs |->
                   [ parser |-> base + i,
                     module |-> subs[i],
                     entrypoint |-> IF modules[subs[i]].def.defined
                                    THEN Function(subs[i])
                                    ELSE None ]]
           dotEntry == IF dotted
                       THEN << [name |-> N_dot, parser |-> dot, listed |-> TRUE] >>
                       ELSE <<>>
           dotParser == IF dotted THEN <<ArgumentParser(N_dot)>> ELSE <<>>
           created ==
               [ (parsers \o subParsers \o dotParser) EXCEPT
                   ![top.parser].has_subparsers = @ \/ package,
                   ![top.parser].subparsers = @ \o subEntries \o dotEntry ]
           set == IF hasEntrypoint
                  THEN _set_entrypoint(created[target], top.entrypoint)
                  ELSE [ok |-> TRUE, parser |-> created[target]]
       IN  /\ parsers' = [created EXCEPT ![target] = set.parser]
           /\ stack' = SubSeq(stack, 1, Len(stack) - 1) \o pushes
           /\ pushed' = pushed \o [i \in DOMAIN subs |-> base + i]
           /\ popped' = Append(popped, top.parser)
           /\ raised' = IF set.ok THEN None ELSE Raise("RuntimeError")
           /\ pc' = IF ~set.ok THEN "failed"
                    ELSE IF stack' = <<>> THEN "decorated"
                    ELSE "building"
    /\ UNCHANGED <<modules, submodules, cli, argv, parsed, calls, printed,
                   returned, coerceVars>>

(***************************************************************************)
(* ast.literal_eval, on the literals the command lines of the model use:   *)
(* decimal integers, decimal fractions, True, False, None, single-quoted   *)
(* strings without escapes, tuple and list displays of these, without      *)
(* blanks; a bare name is a ValueError, anything else a SyntaxError.       *)
(***************************************************************************)
Digits == {"0", "1", "2", "3", "4", "5", "6", "7", "8", "9"}
Letters ==
    {"a", "b", "c", "d", "e", "f", "g", "h", "i", "j", "k", "l", "m", "n", "o",
     "p", "q", "r", "s", "t", "u", "v", "w", "x", "y", "z", "F", "N", "T", "_"}

DigitValue(c) ==
    CASE c = "0" -> 0 [] c = "1" -> 1 [] c = "2" -> 2 [] c = "3" -> 3 [] c = "4" -> 4
      [] c = "5" -> 5 [] c = "6" -> 6 [] c = "7" -> 7 [] c = "8" -> 8 [] c = "9" -> 9

RECURSIVE Decimal(_)
Decimal(s) ==
    IF s = <<>> THEN 0
    ELSE 10 * Decimal(SubSeq(s, 1, Len(s) - 1)) + DigitValue(s[Len(s)])

AllDigits(s) == s # <<>> /\ \A i \in DOMAIN s : s[i] \in Digits

\* m * 10^-e without trailing zeros in the fraction.
RECURSIVE Normal(_, _)
Normal(m, e) == IF e > 0 /\ m % 10 = 0 THEN Normal(m \div 10, e - 1) ELSE FloatV(m, e)

\* How many brackets are open before the i-th character.
Level(s, i) ==
    Cardinality({k \in 1..(i - 1) : s[k] \in {"(", "["}})
    - Cardinality({k \in 1..(i - 1) : s[k] \in {")", "]"}})

\* s is one bracketed display: its first bracket closes at its last character.
Bracketed(s, open, close) ==
    /\ Len(s) >= 2
    /\ s[1] = open
    /\ s[Len(s)] = close
    /\ \A i \in 2..Len(s) : Level(s, i) >= 1
    /\ Level(s, Len(s) + 1) = 0

Inner(s) == SubSeq(s, 2, Len(s) - 1)

TopCommas(s) == {i \in DOMAIN s : s[i] = "," /\ Level(s, i) = 0}

\* The elements of a display, split at its commas; a trailing comma is allowed.
Pieces(s) ==
    LET body == IF s # <<>> /\ s[Len(s)] = "," THEN SubSeq(s, 1, Len(s) - 1) ELSE s
        commas == TopCommas(body)
        start(n) == IF n = 1 THEN 1
                    ELSE 1 + CHOOSE c \in commas :
                                 Cardinality({d \in commas : d <= c}) = n - 1
        stop(n) == IF n = Cardinality(commas) + 1 THEN Len(body)
                   ELSE (CHOOSE c \in commas : Cardinality({d \in commas : d <= c}) = n) - 1
    IN  IF body = <<>> THEN <<>>
        ELSE [n \in 1..(Cardinality(commas) + 1) |-> SubSeq(body, start(n), stop(n))]

\* A display of evaluated elements: parsing fails before evaluating does.
Display(kind, rs) ==
    IF \E i \in DOMAIN rs : rs[i] = Raise("SyntaxError") THEN Raise("SyntaxError")
    ELSE IF \E i \in DOMAIN rs : IsRaise(rs[i]) THEN Raise("ValueError")
    ELSE Val(kind, rs)

RECURSIVE literal_eval(_)
literal_eval(s) ==
    CASE s = <<"T", "r", "u", "e">> -> BoolV(TRUE)
      [] s = <<"F", "a", "l", "s", "e">> -> BoolV(FALSE)
      [] s = <<"N", "o", "n", "e">> -> None
      [] AllDigits(s) /\ (Len(s) = 1 \/ s[1] # "0") -> IntV(Decimal(s))
      [] \E k \in DOMAIN s :
            /\ s[k] = "."
            /\ AllDigits(SubSeq(s, 1, k - 1))
            /\ AllDigits(SubSeq(s, k + 1, Len(s)))
            /\ (k = 2 \/ s[1] # "0") ->
            LET k == CHOOSE k \in DOMAIN s : s[k] = "."
            IN  Normal(Decimal(SubSeq(s, 1, k - 1) \o SubSeq(s, k + 1, Len(s))), Len(s) - k)
      [] /\ Len(s) >= 2
         /\ s[1] = "'"
         /\ s[Len(s)] = "'"
         /\ \A i \in 2..(Len(s) - 1) : s[i] \notin {"'", "\\"} ->
            StrV(Inner(s))
      [] Bracketed(s, "(", ")") /\ Inner(s) # <<>> /\ TopCommas(Inner(s)) = {} ->
            literal_eval(Inner(s))
      [] Bracketed(s, "(", ")") ->
            Display("tuple", [i \in DOMAIN Pieces(Inner(s)) |-> literal_eval(Pieces(Inner(s))[i])])
      [] Bracketed(s, "[", "]") ->
            Display("list", [i \in DOMAIN Pieces(Inner(s)) |-> literal_eval(Pieces(Inner(s))[i])])
      [] /\ s # <<>>
         /\ \A i \in DOMAIN s : s[i] \in Letters
         /\ s \notin {<<"T", "r", "u", "e">>, <<"F", "a", "l", "s", "e">>, <<"N", "o", "n", "e">>} ->
            Raise("ValueError")
      [] OTHER -> Raise("SyntaxError")

(***************************************************************************)
(* argparse.ArgumentParser.parse_args, for parsers made of the arguments   *)
(* add_argument and _set_parameter produce, the built-in -h/--help and     *)
(* subcommands.  A namespace is the sequence of its [key, value] items.    *)
(***************************************************************************)
Has(ns, key) == \E i \in DOMAIN ns : ns[i].key = key
Get(ns, key) == ns[CHOOSE i \in DOMAIN ns : ns[i].key = key].value
Put(ns, key, v) ==
    IF Has(ns, key)
    THEN [i \in DOMAIN ns |-> IF ns[i].key = key THEN [key |-> key, value |-> v] ELSE ns[i]]
    ELSE Append(ns, [key |-> key, value |-> v])

RECURSIVE Update(_, _)
\* setattr(namespace, key, value) for every item of other.
Update(ns, other) ==
    IF other = <<>> THEN ns
    ELSE Update(Put(ns, other[1].key, other[1].value), Rest(other))

\* cls._set_t(value=literal, t=t), reached only when evaluating the literal did
\* not raise.
Typed(literal, ty) == IF IsRaise(literal) THEN literal ELSE _set_t(literal, ty)

\* flag.type: lambda value: cls._set_t(value=value if t is str else ast.literal_eval(value), t=t)
TypeFunction(flag, s) ==
    Typed(IF flag.type = Prim("str") THEN StrV(s) ELSE literal_eval(s), flag.type)

\* A parser that falls back on the default when a string does not convert.
_get_value_DefaultOnFailure(flag, s) ==
    IF IsRaise(TypeFunction(flag, s)) THEN flag.default ELSE TypeFunction(flag, s)

\* A TypeError or ValueError of the type function becomes an argument error, which
\* ends the process; anything else propagates.
ArgumentError(r) ==
    IF IsRaise(r) /\ r.p \in {"TypeError", "ValueError"} THEN Raise("SystemExit") ELSE r

\* ArgumentParser._get_value
_get_value(flag, s) == ArgumentError(TypeFunction(flag, s))

T_h == <<"-", "h">>
T_help == <<"-", "-", "h", "e", "l", "p">>

\* The option strings of a parser, each with the index of its action (0: help).
OptionTable(P) ==
    << [opt |-> T_h, act |-> 0], [opt |-> T_help, act |-> 0] >>
    \o [i \in 1..Len(SelectSeq(P.actions, LAMBDA a : a.option_strings # <<>>)) |->
          LET k == CHOOSE k \in DOMAIN P.actions :
                      /\ P.actions[k].option_strings # <<>>
                      /\ Cardinality({j \in 1..k : P.actions[j].option_strings # <<>>}) = i
          IN  [opt |-> P.actions[k].option_strings[1], act |-> k]]

IsNegativeNumber(s) ==
    /\ Len(s) >= 2
    /\ s[1] = "-"
    /\ \/ AllDigits(Rest(s))
       \/ \E k \in 2..Len(s) :
             /\ s[k] = "."
             /\ \A i \in (2..Len(s)) \ {k} : s[i] \in Digits
             /\ k < Len(s)

\* ArgumentParser._parse_optional: is the string an argument ("A"), an option
\* ("O", with its action, -1 when unknown) or an ambiguous abbreviation?
_parse_optional(P, s) ==
    LET table == OptionTable(P)
        exact == {i \in DOMAIN table : table[i].opt = s}
        abbreviated == {i \in DOMAIN table : StartsWith(table[i].opt, s)}
    IN  IF s = <<>> \/ s[1] # "-" THEN [cls |-> "A", act |-> -1]
        ELSE IF exact # {} THEN [cls |-> "O", act |-> table[CHOOSE i \in exact : TRUE].act]
        ELSE IF Len(s) = 1 THEN [cls |-> "A", act |-> -1]
        ELSE IF Cardinality(abbreviated) > 1 THEN [cls |-> "ambiguous", act |-> -1]
        ELSE IF Cardinality(abbreviated) = 1
             THEN [cls |-> "O", act |-> table[CHOOSE i \in abbreviated : TRUE].act]
        ELSE IF IsNegativeNumber(s) THEN [cls |-> "A", act |-> -1]
        ELSE IF \E i \in DOMAIN s : s[i] = " " THEN [cls |-> "A", act |-> -1]
        ELSE [cls |-> "O", act |-> -1]

\* ArgumentParser._get_positional_actions: the subcommand (act 0), then the
\* positional arguments.
Positionals(P) ==
    (IF P.has_subparsers THEN <<0>> ELSE <<>>)
    \o [i \in 1..Len(SelectSeq(P.actions, LAMBDA a : a.option_strings = <<>>)) |->
          CHOOSE k \in DOMAIN P.actions :
              /\ P.actions[k].option_strings = <<>>
              /\ Cardinality({j \in 1..k : P.actions[j].option_strings = <<>>}) = i]

\* Does the positional take at least one argument string?
NeedsOne(P, act) == act = 0 \/ P.actions[act].nargs = "None"

Needed(P, acts) == Cardinality({i \in DOMAIN acts : NeedsOne(P, acts[i])})

\* The argument strings from the i-th up to the next option.
RECURSIVE ARun(_, _)
ARun(pat, i) ==
    IF i > Len(pat) \/ pat[i].cls # "A" THEN 0 ELSE 1 + ARun(pat, i + 1)

\* ArgumentParser._match_arguments_partial: how many of the positionals left
\* can be matched against n argument strings.
_match_arguments_partial(P, rem, n) ==
    CHOOSE j \in 0..Len(rem) :
        /\ Needed(P, SubSeq(rem, 1, j)) <= n
        /\ \A k \in (j + 1)..Len(rem) : Needed(P, SubSeq(rem, 1, k)) > n

\* The state of one parse: namespace, actions seen, positionals consumed, strings
\* left over, the exception that ended it (if any), the conversions tried, the
\* help printed.
ParseState(ns) ==
    [ns |-> ns, seen |-> {}, pos |-> 0, extras |-> <<>>, exc |-> None,
     conv |-> <<>>, printed |-> <<>>]

Failed(st) == st.exc # None

\* ArgumentParser._get_values: without a string (nargs '?'), a flag yields its
\* const and a positional its default, a string one going through the type
\* function; with a string, the string goes through the type function.
_get_values(flag, strings) ==
    LET fromDefault == IF flag.option_strings # <<>> THEN flag.const ELSE flag.default
    IN  IF strings # <<>> \/ fromDefault.k = "str"
        THEN _get_value(flag, IF strings # <<>> THEN strings[1] ELSE fromDefault.p)
        ELSE fromDefault

\* The conversion of a string of the command line is about to be tried.
Tried(flag, strings, st) ==
    IF strings = <<>> THEN st
    ELSE [st EXCEPT !.conv = Append(@, [flag |-> flag, string |-> strings[1]])]

\* setattr(namespace, dest, v), unless getting v raised.
Store(flag, st, v) ==
    IF IsRaise(v)
    THEN [st EXCEPT !.exc = v, !.seen = @ \cup {flag.dest}]
    ELSE [st EXCEPT !.ns = Put(@, flag.dest, v), !.seen = @ \cup {flag.dest}]

\* take_action for a flag or positional argument.
take_action(flag, strings, st) ==
    Store(flag, Tried(flag, strings, st), _get_values(flag, strings))

RECURSIVE parse_known_args(_, _)

\* The namespace of the subcommand is copied over the parent's.
Merge(st, sub) ==
    [st EXCEPT !.ns = Update(@, sub.ns),
               !.extras = @ \o sub.extras,
               !.exc = sub.exc,
               !.conv = @ \o sub.conv,
               !.printed = @ \o sub.printed]

\* _SubParsersAction.__call__: the named parser parses the rest.
call_subparser(P, strings, st) ==
    LET named == {i \in DOMAIN P.subparsers : P.subparsers[i].name = strings[1]}
    IN  IF named = {}
        THEN [st EXCEPT !.exc = Raise("SystemExit")]
        ELSE Merge(st, parse_known_args(P.subparsers[CHOOSE i \in named : TRUE].parser,
                                        Rest(strings)))

\* How many strings the first of the positionals acts takes: the subcommand all
\* that is left, an optional one a string when enough are left for the others.
Count(P, args, i, acts, avail) ==
    IF acts[1] = 0 THEN Len(args) - i + 1
    ELSE IF P.actions[acts[1]].nargs = "None" THEN 1
    ELSE IF avail - Needed(P, Rest(acts)) >= 1 THEN 1 ELSE 0

Taken(P, act, strings, st) ==
    IF act = 0
    THEN call_subparser(P, strings, st)
    ELSE take_action(P.actions[act], strings, st)

Consumed(st) == [st EXCEPT !.pos = @ + 1]

RECURSIVE take_positionals(_, _, _, _, _, _)
\* consume_positionals, for the positionals acts matched against avail argument
\* strings from the i-th.
take_positionals(P, args, i, acts, avail, st) ==
    IF acts = <<>> \/ Failed(st)
    THEN [i |-> i, st |-> st]
    ELSE take_positionals(
             P, args, i + Count(P, args, i, acts, avail), Rest(acts),
             avail - Count(P, args, i, acts, avail),
             Consumed(Taken(P, acts[1],
                            SubSeq(args, i, i + Count(P, args, i, acts, avail) - 1), st)))

consume_positionals(P, args, pat, i, st) ==
    LET rem == SubSeq(Positionals(P), st.pos + 1, Len(Positionals(P)))
        n == ARun(pat, i)
        j == _match_arguments_partial(P, rem, n)
    IN  take_positionals(P, args, i, SubSeq(rem, 1, j), n, st)

\* consume_optional: an unknown option is left over, -h prints the help and
\* exits, a flag takes the argument strings its nargs allows.
consume_optional(pid, P, args, pat, i, st) ==
    LET act == pat[i].act
        n == ARun(pat, i + 1)
        count == IF n >= 1 THEN 1 ELSE 0
    IN  IF act = -1
        THEN [i |-> i + 1, st |-> [st EXCEPT !.extras = Append(@, args[i])]]
        ELSE IF act = 0
        THEN [i |-> i + 1,
              st |-> [st EXCEPT !.printed = Append(@, pid), !.exc = Raise("SystemExit")]]
        ELSE IF P.actions[act].nargs = "None" /\ n = 0
        THEN [i |-> i + 1, st |-> [st EXCEPT !.exc = Raise("SystemExit")]]
        ELSE [i |-> i + 1 + count,
              st |-> take_action(P.actions[act], SubSeq(args, i + 1, i + count), st)]

\* The index of the first option from the i-th string on, 0 when there is none.
NextOption(pat, i) ==
    LET options == {k \in i..Len(pat) : pat[k].cls = "O"}
    IN  IF options = {} THEN 0 ELSE CHOOSE k \in options : \A o \in options : k <= o

\* After the loop: what the positionals did not take is left over.
Leftover(args, last) ==
    IF Failed(last.st) THEN last.st
    ELSE [last.st EXCEPT !.extras = @ \o SubSeq(args, last.i, Len(args))]

\* The strings before the next option that no positional took are left over.
Skipped(args, i, next, st) == [st EXCEPT !.extras = @ \o SubSeq(args, i, next - 1)]

RECURSIVE consume(_, _, _, _)
RECURSIVE consume_after(_, _, _, _, _, _)
\* The loop of _parse_known_args from the position at.i in state at.st:
\* positionals and options alternately.
consume(pid, args, pat, at) ==
    IF Failed(at.st) THEN at.st
    ELSE consume_after(pid, args, pat, at.i, NextOption(pat, at.i),
                       IF NextOption(pat, at.i) = at.i
                       THEN at
                       ELSE consume_positionals(parsers[pid], args, pat, at.i, at.st))

\* One iteration from the i-th string, the positionals before the option at next
\* consumed (when there is one).
consume_after(pid, args, pat, i, next, before) ==
    IF next = 0 THEN Leftover(args, before)
    ELSE IF before.i > i THEN consume(pid, args, pat, before)
    ELSE IF Failed(before.st) THEN before.st
    ELSE consume(pid, args, pat,
                 consume_optional(pid, parsers[pid], args, pat, next,
                                  Skipped(args, i, next, before.st)))

\* The default, converted, takes the place of the string default.
Defaulted(flag, st, v) ==
    IF IsRaise(v) THEN [st EXCEPT !.exc = v]
    ELSE [st EXCEPT !.ns = Put(@, flag.dest, v)]

RECURSIVE convert_defaults(_, _, _)
\* After the loop: the string default of an argument not seen goes through the
\* argument's type function.
convert_defaults(P, k, st) ==
    IF k > Len(P.actions) \/ Failed(st) THEN st
    ELSE convert_defaults(
             P, k + 1,
             IF /\ P.actions[k].dest \notin st.seen
                /\ ~P.actions[k].required
                /\ P.actions[k].default.k = "str"
             THEN Defaulted(P.actions[k], st,
                            _get_value(P.actions[k], P.actions[k].default.p))
             ELSE st)

\* A required argument that was not seen is an error.
check_required(P, st) ==
    IF Failed(st) THEN st
    ELSE IF \E k \in DOMAIN P.actions :
               P.actions[k].required /\ P.actions[k].dest \notin st.seen
    THEN [st EXCEPT !.exc = Raise("SystemExit")]
    ELSE st

\* The namespace before parsing: the defaults of the arguments, then those of the
\* parser (set_defaults).
Namespace(P) ==
    LET defaults ==
            [i \in DOMAIN P.actions |->
                [key |-> P.actions[i].dest, value |-> P.actions[i].default]]
    IN  IF P.entrypoint.k = "unset" THEN defaults
        ELSE Put(defaults, N_entrypoint, P.entrypoint)

Pattern(P, args) == [i \in DOMAIN args |-> _parse_optional(P, args[i])]

parse_known_args(pid, args) ==
    IF \E i \in DOMAIN args : Pattern(parsers[pid], args)[i].cls = "ambiguous"
    THEN [ParseState(Namespace(parsers[pid])) EXCEPT !.exc = Raise("SystemExit")]
    ELSE check_required(
             parsers[pid],
             convert_defaults(
                 parsers[pid], 1,
                 consume(pid, args, Pattern(parsers[pid], args),
                         [i |-> 1, st |-> ParseState(Namespace(parsers[pid]))])))

\* Strings left over are an error.
NoExtras(st) ==
    IF ~Failed(st) /\ st.extras # <<>>
    THEN [st EXCEPT !.exc = Raise("SystemExit")]
    ELSE st

parse_args(pid, args) == NoExtras(parse_known_args(pid, args))

(***************************************************************************)
(* Command lines.                                                          *)
(***************************************************************************)
T_1 == <<"1">>
T_0_5 == <<"0", ".", "5">>
T_hi == Chars_hi
T_quoted_hi == <<"'", "h", "i", "'">>
T_False == <<"F", "a", "l", "s", "e">>
T_c == <<"-", "-", "c">>
T_no_c == <<"-", "-", "n", "o", "-", "c">>
T_d == <<"-", "-", "d">>
T_e == <<"-", "-", "e">>
T_n == <<"-", "-", "n">>
T_p == <<"-", "-", "p">>
T_pos_or_kwd == <<"-", "-", "p", "o", "s", "-", "o", "r", "-", "k", "w", "d">>

T_pair == <<"(", "1", ",", "2", ")">>
T_triple == <<"(", "1", ",", "2", ",", "3", ")">>
T_nested == <<"[", "(", "1", ",", "'", "h", "i", "'", ")", "]">>
T_nested_int == <<"[", "(", "1", ",", "2", ")", "]">>

Vocabulary ==
    { T_1, T_0_5, T_hi, T_quoted_hi, T_False, T_c, T_no_c, T_d, T_e, T_n,
      T_pos_or_kwd, T_h, N_dot, N_foo, N_bar, N_baz, N_qux,
      T_pair, T_triple, T_nested, T_nested_int }

\* Every command line of at most MaxArgv strings, and some longer ones.
Argvs ==
    UNION { [1..n -> Vocabulary] : n \in 0..MaxArgv }
    \cup { <<T_1, T_hi, T_no_c, T_d, T_0_5>>,
           <<T_1, T_hi, T_d, T_0_5>>,
           <<T_1, T_hi, T_c, T_False, T_d, T_0_5>>,
           <<T_1, T_hi, T_c, T_d, T_0_5>>,
           <<T_1, T_hi, T_d, T_hi>>,
           <<T_1, T_hi, T_d, T_quoted_hi>>,
           <<T_1, T_hi, T_d, T_1>>,
           <<T_0_5, T_hi, T_d, T_0_5>>,
           <<T_1, T_hi>>,
           <<T_1, T_1, T_d, T_1, T_e, T_0_5>>,
           <<N_dot, T_1, T_hi, T_d, T_0_5>>,
           <<N_dot, T_1, T_hi, T_c, T_d, T_0_5>>,
           <<N_foo, T_1>>,
           <<N_foo, T_hi>>,
           <<N_bar, T_1>>,
           <<N_baz, N_dot>>,
           <<N_baz, N_dot, T_hi>>,
           <<N_baz, N_qux>>,
           <<N_baz, N_qux, T_pos_or_kwd>>,
           <<N_baz, N_qux, T_p, T_1>>,
           <<T_pos_or_kwd, T_1>>,
           <<T_n, T_1, T_e, T_1>>,
           <<T_n, T_e>>,
           <<T_e, T_pair>>,
           <<T_e, T_triple>>,
           <<T_e, T_nested>> }

(***************************************************************************)
(* _Decoration.run                                                         *)
(***************************************************************************)
\* What a call of the function of module m returns.
Return(m, args, kwargs) == Val("return", <<m, args, kwargs>>)

\* run, from line 87 on, st being what parse_args made of args.
dispatch(args, st) ==
    LET entrypoint == Get(st.ns, N_entrypoint)
        sig == Signature(entrypoint)
        positional == SelectSeq(sig, LAMBDA q : q.kind = "POSITIONAL_ONLY")
        keyword == SelectSeq(sig, LAMBDA q : q.kind # "POSITIONAL_ONLY")
        a == [i \in DOMAIN positional |-> Get(st.ns, positional[i].name)]
        kwargs == [i \in DOMAIN keyword |->
                      [key |-> keyword[i].name, value |-> Get(st.ns, keyword[i].name)]]
        called == IF modules[entrypoint.p].def.coro
                  THEN Val("coroutine", Return(entrypoint.p, a, kwargs))
                  ELSE Return(entrypoint.p, a, kwargs)
    IN  /\ argv' = args
        /\ parsed' = st
        /\ IF Failed(st)
           THEN /\ calls' = <<>>
                /\ printed' = st.printed
                /\ returned' = st.exc
           ELSE IF \E i \in DOMAIN sig : ~Has(st.ns, sig[i].name)
           THEN /\ calls' = <<>>
                /\ printed' = st.printed
                /\ returned' = Raise("KeyError")
           ELSE IF entrypoint.k = "function"
           THEN /\ calls' = << [entrypoint |-> entrypoint, args |-> a, kwargs |-> kwargs] >>
                /\ printed' = st.printed
                /\ returned' = IF modules[entrypoint.p].def.coro THEN called.p ELSE called
           ELSE /\ calls' = <<>>
                /\ printed' = Append(st.printed, entrypoint.p)
                /\ returned' = None

\* run(args), on the decorated function of a finished build; a process runs its
\* command line once.
run ==
    /\ pc = "decorated"
    /\ \E args \in Argvs : dispatch(args, parse_args(cli.parser, args))
    /\ pc' = "ran"
    /\ UNCHANGED <<modules, submodules, parsers, stack, cli, pushed, popped, raised,
                   coerceVars>>

Next == __call__ \/ __call__loop \/ run

Spec == Init /\ [][Next]_vars

(***************************************************************************)
(* The coercion engine on its own: annotations and values are built up     *)
(* constructor by constructor, then _set_t is applied.                     *)
(***************************************************************************)
Pending == Val("pending", 0)

RECURSIVE Depth(_)
Depth(ty) ==
    IF ty.a = <<>> /\ ty.o # "tuple"
    THEN 0
    ELSE LET ds == {Depth(ty.a[i]) : i \in DOMAIN ty.a}
         IN  1 + (IF ds = {} THEN 0 ELSE CHOOSE d \in ds : \A e \in ds : e <= d)

RECURSIVE Hashable(_)
Hashable(v) ==
    \/ v.k \in _primitive_types
    \/ v.k = "frozenset"
    \/ v.k = "tuple" /\ \A i \in DOMAIN v.p : Hashable(v.p[i])

\* Alternately value and sibling, n elements long.
Alternate(n) == [i \in 1..n |-> IF i % 2 = 1 THEN value ELSE sibling]

InitCoerce ==
    /\ \E b \in { <<IntV(1), IntV(2), Prim("int")>>,
                   <<BoolV(TRUE), BoolV(FALSE), Prim("bool")>>,
                   <<FloatV(5, 1), FloatV(15, 1), Prim("float")>>,
                   <<StrV(Chars_hi), StrV(<<>>), Prim("str")>> } :
          /\ value = b[1]
          /\ sibling = b[2]
          /\ t = b[3]
    /\ result = Pending
    /\ modules = <<>>
    /\ submodules = FALSE
    /\ pc = "undecorated"
    /\ parsers = <<>>
    /\ stack = <<>>
    /\ cli = NoCli
    /\ pushed = <<>>
    /\ popped = <<>>
    /\ raised = None
    /\ argv = <<>>
    /\ parsed = None
    /\ calls = <<>>
    /\ printed = <<>>
    /\ returned = None

CanWrap == result = Pending /\ Depth(t) < MaxDepth

WrapList ==
    /\ CanWrap
    /\ value' = Val("list", <<value, sibling>>)
    /\ sibling' = Val("list", <<>>)
    /\ t' = ListT(t)
    /\ UNCHANGED <<result, cliVars>>

WrapSet ==
    /\ CanWrap
    /\ Hashable(value) /\ Hashable(sibling)
    /\ value' = Val("set", {value, sibling})
    /\ sibling' = Val("set", {sibling})
    /\ t' = SetOfT(t)
    /\ UNCHANGED <<result, cliVars>>

\* A frozenset annotation, against a frozenset or against the set a literal gives.
WrapFrozenSet ==
    /\ CanWrap
    /\ Hashable(value) /\ Hashable(sibling)
    /\ \E kind \in {"set", "frozenset"} :
          /\ value' = Val(kind, {value, sibling})
          /\ sibling' = Val(kind, {})
    /\ t' = FrozenSetT(t)
    /\ UNCHANGED <<result, cliVars>>

WrapDict ==
    /\ CanWrap
    /\ \/ /\ value' = Val("dict", << <<StrV(Chars_hi), value>>, <<StrV(<<>>), sibling>> >>)
          /\ sibling' = Val("dict", <<>>)
          /\ t' = DictT(Prim("str"), t)
       \/ /\ Hashable(value) /\ Hashable(sibling) /\ value # sibling
          /\ value' = Val("dict", << <<value, IntV(1)>>, <<sibling, IntV(2)>> >>)
          /\ sibling' = Val("dict", << <<sibling, IntV(1)>> >>)
          /\ t' = DictT(t, Prim("int"))
    /\ UNCHANGED <<result, cliVars>>

WrapVariadicTuple ==
    /\ CanWrap
    /\ value' = Val("tuple", Alternate(3))
    /\ sibling' = Val("tuple", <<>>)
    /\ t' = VarTupleT(t)
    /\ UNCHANGED <<result, cliVars>>

\* tuple[T0..Tn] against a tuple one shorter, as long, or one longer.
WrapFixedTuple ==
    /\ CanWrap
    /\ \E n \in 0..2, d \in {-1, 0, 1} :
          /\ n + d >= 0
          /\ n = 0 => Depth(t) = 0
          /\ value' = Val("tuple", Alternate(n + d))
          /\ sibling' = Val("tuple", [i \in 1..(n + d) |-> sibling])
          /\ t' = TupleT([i \in 1..n |-> t])
    /\ UNCHANGED <<result, cliVars>>

\* tuple[T, str] against a two-element tuple.
WrapMixedTuple ==
    /\ CanWrap
    /\ value' = Val("tuple", <<value, StrV(Chars_hi)>>)
    /\ sibling' = Val("tuple", <<sibling, StrV(<<>>)>>)
    /\ t' = TupleT(<<t, Prim("str")>>)
    /\ UNCHANGED <<result, cliVars>>

Coerce ==
    /\ result = Pending
    /\ result' = _set_t(value, t)
    /\ UNCHANGED <<value, sibling, t, cliVars>>

NextCoerce ==
    \/ WrapList
    \/ WrapSet
    \/ WrapFrozenSet
    \/ WrapDict
    \/ WrapVariadicTuple
    \/ WrapFixedTuple
    \/ WrapMixedTuple
    \/ Coerce

SpecCoerce == InitCoerce /\ [][NextCoerce]_vars

(***************************************************************************)
(* Claims about the coercion engine (checked under SpecCoerce).            *)
(***************************************************************************)
IsFixedTuple(ty) == ty.o = "tuple" /\ ~(Len(ty.a) = 2 /\ ty.a[2] = EllipsisT)

\* v already has the structure ty describes.
RECURSIVE Conforms(_, _)
Conforms(v, ty) ==
    CASE ty.o \in _primitive_types -> v.k = ty.o /\ ty.a = <<>>
      [] ty.o \in {"list", "set", "frozenset"} ->
            /\ v.k = ty.o
            /\ Len(ty.a) = 1
            /\ IF ty.o = "list"
               THEN \A i \in DOMAIN v.p : Conforms(v.p[i], ty.a[1])
               ELSE \A e \in v.p : Conforms(e, ty.a[1])
      [] ty.o = "dict" ->
            /\ v.k = "dict"
            /\ Len(ty.a) = 2
            /\ \A i \in DOMAIN v.p :
                  Conforms(v.p[i][1], ty.a[1]) /\ Conforms(v.p[i][2], ty.a[2])
      [] ty.o = "tuple" /\ ~IsFixedTuple(ty) ->
            v.k = "tuple" /\ \A i \in DOMAIN v.p : Conforms(v.p[i], ty.a[1])
      [] ty.o = "tuple" /\ IsFixedTuple(ty) ->
            /\ v.k = "tuple"
            /\ Len(v.p) = Len(ty.a)
            /\ \A i \in DOMAIN v.p : Conforms(v.p[i], ty.a[i])
      [] OTHER -> FALSE

\* A frozenset annotation occurs somewhere in ty.
RECURSIVE HasFrozen(_)
HasFrozen(ty) == ty.o = "frozenset" \/ \E i \in DOMAIN ty.a : HasFrozen(ty.a[i])

\* C9: a tuple coerced against a fixed-arity tuple annotation either fails or
\* yields a tuple of the same length, element i being element i coerced against
\* Ti; whenever the lengths differ the coercion fails, and no element is dropped.
C9_FixedTupleExactLength ==
    (result # Pending /\ value.k = "tuple" /\ IsFixedTuple(t)) =>
        IF Len(value.p) = Len(t.a)
        THEN \/ IsRaise(result)
             \/ /\ result.k = "tuple"
                /\ Len(result.p) = Len(value.p)
                /\ \A i \in DOMAIN value.p : result.p[i] = _set_t(value.p[i], t.a[i])
        ELSE IsRaise(result)

\* C10 as stated: every value that conforms to its annotation, frozen sets
\* included, is returned unchanged by the coercion, which is therefore idempotent.
C10_RoundTripAnyConforming ==
    (result # Pending /\ Conforms(value, t)) =>
        /\ result = value
        /\ _set_t(result, t) = result

\* C10 as amended: with no frozenset annotation anywhere in it, a conforming value
\* is returned unchanged and coercing the result again changes nothing; against a
\* frozenset annotation a set of conforming elements is rebuilt as a frozenset of
\* the same elements, and a value that is already a frozenset is refused.
C10_RoundTripMutableOnly ==
    /\ (result # Pending /\ Conforms(value, t) /\ ~HasFrozen(t)) =>
            /\ result = value
            /\ _set_t(result, t) = result
    /\ (result # Pending /\ t.o = "frozenset" /\ value.k = "frozenset") =>
            result = Raise("RuntimeError")
    /\ (/\ result # Pending
        /\ t.o = "frozenset"
        /\ value.k = "set"
        /\ ~HasFrozen(t.a[1])
        /\ \A e \in value.p : Conforms(e, t.a[1])) =>
            /\ result = Val("frozenset", value.p)
            /\ _set_t(result, t) = Raise("RuntimeError")

\* A conforming three-level nest of containers with two distinct elements has
\* been coerced.
C10_Witness ==
    /\ result # Pending
    /\ Conforms(value, t)
    /\ ~HasFrozen(t)
    /\ Depth(t) = 3
    /\ t.o = "list"
    /\ t.a[1].o = "dict"
    /\ Len(value.p) = 2
    /\ value.p[1] # value.p[2]
    /\ result = value

(***************************************************************************)
(* Properties of run and of the build.                                     *)
(***************************************************************************)
Ran == pc = "ran"
\* parse_args returned a namespace.
Parsed == Ran /\ ~Failed(parsed)
\* The entrypoint the namespace resolves to.
Resolved == Get(parsed.ns, N_entrypoint)
\* The command line gave a string for the argument of this name.
Supplied(name) == \E i \in DOMAIN parsed.conv : parsed.conv[i].flag.dest = name
Invoked == calls # <<>>
\* What the invoked function received for the parameter of this name.
Received(name) ==
    LET positional == SelectSeq(Signature(calls[1].entrypoint),
                                LAMBDA q : q.kind = "POSITIONAL_ONLY")
    IN  IF Has(calls[1].kwargs, name)
        THEN Get(calls[1].kwargs, name)
        ELSE calls[1].args[CHOOSE i \in DOMAIN positional : positional[i].name = name]
IsPositional(q) ==
    \/ q.kind = "POSITIONAL_ONLY"
    \/ q.kind = "POSITIONAL_OR_KEYWORD" /\ q.default = Empty
Single(sig) == ~submodules /\ Len(modules) = 1 /\ modules[1].def.sig = sig

\* C1: whenever run resolves to a node still bound to its print-help fallback, it
\* prints that node's help and returns the help function's result (None), not an
\* error.
C1_HelpFallbackPrintsAndReturns ==
    (Parsed /\ Resolved.k = "print_help")
        => (printed = <<Resolved.p>> /\ returned = None)

\* C2: a run invokes at most one entrypoint; if the conversion of any supplied
\* string fails, run ends in an error without invoking anything; an invocation
\* happens only after every supplied string converted, and receives the converted
\* values, never a default in their place.
C2_FailedConversionAborts ==
    Ran =>
        /\ Len(calls) <= 1
        /\ (\E i \in DOMAIN parsed.conv :
               IsRaise(TypeFunction(parsed.conv[i].flag, parsed.conv[i].string)))
              => (~Invoked /\ IsRaise(returned))
        /\ Invoked =>
              \A i \in DOMAIN parsed.conv :
                  LET tried == parsed.conv[i]
                  IN  /\ ~IsRaise(TypeFunction(tried.flag, tried.string))
                      /\ (\A j \in DOMAIN parsed.conv :
                              j > i => parsed.conv[j].flag.dest # tried.flag.dest)
                            => Received(tried.flag.dest)
                                   = TypeFunction(tried.flag, tried.string)

\* [(1,2)] was supplied for a list[tuple[int, str]]: the coercion failed two
\* levels down and run raised, calling nothing.
C2_Witness ==
    /\ Ran
    /\ ~Invoked
    /\ returned = Raise("RuntimeError")
    /\ \E i \in DOMAIN parsed.conv :
          /\ parsed.conv[i].string = T_nested_int
          /\ TypeFunction(parsed.conv[i].flag, parsed.conv[i].string) = Raise("RuntimeError")

\* C3: for entrypoint(a: int, /, b: str, c: bool = True, *, d: float),
\* run(["1", "hi", "--no-c", "--d", "0.5"]) invokes entrypoint(1, "hi", c=False,
\* d=0.5) exactly once and returns its result.
C3_DocExampleInvokes ==
    (Ran /\ Single(SigDoc) /\ argv = <<T_1, T_hi, T_no_c, T_d, T_0_5>>)
        => LET kwargs == << [key |-> N_b, value |-> StrV(T_hi)],
                            [key |-> N_c, value |-> BoolV(FALSE)],
                            [key |-> N_d, value |-> FloatV(5, 1)] >>
           IN  /\ calls = << [entrypoint |-> Function(1), args |-> <<IntV(1)>>,
                              kwargs |-> kwargs] >>
               /\ returned = Return(1, <<IntV(1)>>, kwargs)

\* The argument the kind-to-surface mapping prescribes: dest, option strings,
\* whether the command line must give it, and the default it stores.
Surface(flag) ==
    [ dest |-> flag.dest,
      option_strings |-> flag.option_strings,
      mandatory |-> IF flag.option_strings = <<>> THEN flag.nargs = "None" ELSE flag.required,
      default |-> flag.default ]

C5_PositionalOnlyAlwaysRequired ==
    (Ran /\ Invoked) =>
        \A i \in DOMAIN Signature(calls[1].entrypoint) :
            LET q == Signature(calls[1].entrypoint)[i]
            IN  q.kind = "POSITIONAL_ONLY" => Supplied(q.name)

\* C5, amended: a positional-only parameter without a default is a required
\* positional: a command line omitting it is rejected and nothing is invoked; one
\* with a default is an optional positional: a command line omitting it is
\* accepted and the function receives the declared default.
C5_PositionalOnlyRequiredWithoutDefault ==
    /\ (Ran /\ Invoked) =>
          \A i \in DOMAIN Signature(calls[1].entrypoint) :
              LET q == Signature(calls[1].entrypoint)[i]
              IN  q.kind = "POSITIONAL_ONLY" =>
                      /\ q.default = Empty => Supplied(q.name)
                      /\ ~Supplied(q.name) => Received(q.name) = q.default
    /\ (Ran /\ argv = <<>> /\ Single(SigPos)) =>
          (~Invoked /\ returned = Raise("SystemExit"))
    /\ (Ran /\ argv = <<>> /\ Single(SigPosDefault)) =>
          calls = << [entrypoint |-> Function(1), args |-> <<IntV(42)>>, kwargs |-> <<>>] >>

\* entrypoint(pos: int = 42, /) was run on a command line without pos.
C5_Witness ==
    /\ Ran
    /\ Invoked
    /\ Signature(calls[1].entrypoint) = SigPosDefault
    /\ ~Supplied(N_pos)
    /\ calls[1].args = <<IntV(42)>>

\* C6: when decoration fails on a *args or **kwargs parameter, no CLI is left
\* attached to the decorated function.
C6_FailureLeavesNoCli ==
    pc = "failed" => ~cli.attached

\* The module a node of the command tree was created for.
ModuleOf(pid) ==
    IF pid = 1 THEN 1
    ELSE CHOOSE m \in DOMAIN modules : modules[m].name = parsers[pid].name
IsNode(pid) == pid = 1 \/ parsers[pid].name # N_dot
NoDuplicates(seq) == \A i, j \in DOMAIN seq : seq[i] = seq[j] => i = j
\* The worklist emptied, every triple pushed once and popped once, and each
\* package node has its submodules as children, in order, then '.' when the
\* package defines the function, bound to it with its parameters.
TreeShape ==
    /\ stack = <<>>
    /\ NoDuplicates(pushed)
    /\ NoDuplicates(popped)
    /\ {pushed[i] : i \in DOMAIN pushed} = {popped[i] : i \in DOMAIN popped}
    /\ {pushed[i] : i \in DOMAIN pushed} = {pid \in DOMAIN parsers : IsNode(pid)}
    /\ \A pid \in DOMAIN parsers :
          (IsNode(pid) /\ modules[ModuleOf(pid)].package) =>
              LET m == modules[ModuleOf(pid)]
                  children == parsers[pid].subparsers
                  own == m.def.defined
              IN  /\ Len(children) = Len(m.subs) + (IF own THEN 1 ELSE 0)
                  /\ \A i \in DOMAIN m.subs :
                        /\ children[i].name = modules[m.subs[i]].name
                        /\ ModuleOf(children[i].parser) = m.subs[i]
                  /\ own =>
                        LET dot == parsers[children[Len(children)].parser]
                        IN  /\ dot.name = N_dot
                            /\ dot.entrypoint = Function(ModuleOf(pid))
                            /\ [i \in DOMAIN dot.actions |-> dot.actions[i].dest]
                                   = [i \in DOMAIN m.def.sig |-> m.def.sig[i].name]

\* C7: with submodules=True a finished build has the tree shape above, and every
\* submodule child is bound to its module's function if there is one, to its own
\* print-help otherwise.
C7_EveryChildBoundToItsFunction ==
    (submodules /\ pc \in {"decorated", "ran"}) =>
        /\ TreeShape
        /\ \A pid \in (DOMAIN parsers) \ {1} :
              IsNode(pid) =>
                  parsers[pid].entrypoint
                      = IF modules[ModuleOf(pid)].def.defined
                        THEN Function(ModuleOf(pid))
                        ELSE PrintHelp(pid)

\* C7, amended: with submodules=True a finished build has the tree shape above;
\* the child of a submodule that is not a package is bound to the module's
\* function if there is one, to its own print-help otherwise; every package node,
\* the root included, stays bound to its own print-help and takes no argument,
\* the package's function being reached through its '.' child.
C7_PackageChildKeepsPrintHelp ==
    (submodules /\ pc \in {"decorated", "ran"}) =>
        /\ TreeShape
        /\ \A pid \in DOMAIN parsers :
              IsNode(pid) =>
                  IF modules[ModuleOf(pid)].package
                  THEN /\ parsers[pid].entrypoint = PrintHelp(pid)
                       /\ parsers[pid].actions = <<>>
                  ELSE parsers[pid].entrypoint
                           = IF modules[ModuleOf(pid)].def.defined
                             THEN Function(ModuleOf(pid))
                             ELSE PrintHelp(pid)

\* prog/baz defines the function and has a submodule: baz keeps print-help and
\* its '.' child is bound to the function with its parameter.
C7_Witness ==
    /\ submodules
    /\ pc = "decorated"
    /\ Len(modules) = 5
    /\ modules[3].def.sig = SigPosOrKwd
    /\ \E pid \in DOMAIN parsers :
          /\ parsers[pid].name = N_baz
          /\ parsers[pid].entrypoint = PrintHelp(pid)
          /\ Len(parsers[pid].subparsers) = 2
          /\ parsers[parsers[pid].subparsers[2].parser].entrypoint = Function(3)
          /\ Len(parsers[parsers[pid].subparsers[2].parser].actions) = 1

\* C8: an invoked function receives the declared default for every parameter
\* exposed as an optional flag for which the command line supplied no value,
\* whether the flag is absent or present with no value.
C8_NoValueMeansDefault ==
    (Ran /\ Invoked) =>
        \A i \in DOMAIN Signature(calls[1].entrypoint) :
            LET q == Signature(calls[1].entrypoint)[i]
            IN  (q.default # Empty /\ ~IsPositional(q) /\ ~Supplied(q.name))
                    => Received(q.name) = q.default

====
